---- MODULE Spec2Model ----
(***************************************************************************)
(* Model of the page-rendering engine of rofd (src/src/render.rs).         *)
(*                                                                         *)
(* The vector-canvas walk (_render_page_block_to_cairo and the             *)
(* render_to_cairo_context of every Renderable) is a small-step state      *)
(* machine: one action per fallible backend call, the infallible calls     *)
(* between two fallible ones bundled with the step they follow.  A backend *)
(* call that returns a Result may fail at every point (\E ok \in BOOLEAN); *)
(* an unwrap() on None/Err is a panic, which ends the render without a     *)
(* return value.  The painter walk has no failure channel and is one       *)
(* action.                                                                 *)
(*                                                                         *)
(* Numbers: lengths are whole millimetres, pixels are whole numbers, a     *)
(* colour channel c stands for c/255.  The inputs are chosen so that every *)
(* scale factor box/surface is a whole number.                             *)
(***************************************************************************)
EXTENDS Integers, Sequences, FiniteSets, TLC

VARIABLES
    page,       \* events of the page's content layer (the input)
    frames,     \* activations of _render_page_block_to_cairo, outermost first
    pc,         \* position of the running render
    ri,         \* ImageObject: index of the multimedia entry under the loop
    ret,        \* value being returned to the caller (a Result)
    ctx,        \* the cairo context: current graphics state, saved states
    log,        \* the backend and archive operations performed, in order
    started,    \* leaf renders entered, in order (node paths)
    completed,  \* leaf renders that returned Ok, in order
    result,     \* how Page::render_to_cairo_context ended
    qlog,       \* the painter operations performed, in order
    qresult     \* how Page::render_to_qpainter ended

vars == <<page, frames, pc, ri, ret, ctx, log, started, completed, result,
          qlog, qresult>>

\* Bound on the number of events (leaves and blocks) of a generated page.
MaxNodes == 3

-----------------------------------------------------------------------------
(* Option<T>: <<>> is None, <<v>> is Some(v). *)
None == <<>>
Some(v) == <<v>>
IsSome(o) == Len(o) > 0
Unwrap(o) == o[1]

Last(s) == s[Len(s)]
Front(s) == SubSeq(s, 1, Len(s) - 1)

-----------------------------------------------------------------------------
(* types.rs is not part of the sources at hand; the conversions are taken  *)
(* from the specification: one fixed scale factor, field-wise copies.      *)
PxPerMm == 4
mmtopx(v) == v * PxPerMm

BoxFrom(b) == [x |-> b[1], y |-> b[2], width |-> b[3], height |-> b[4]]
to_pixel(b) == [x |-> mmtopx(b.x), y |-> mmtopx(b.y),
                width |-> mmtopx(b.width), height |-> mmtopx(b.height)]
ColorFrom(v) == [value |-> v]
ColorDefault == [value |-> <<0, 0, 0>>]
MatrixFrom(m) == [a |-> m[1], b |-> m[2], c |-> m[3],
                  d |-> m[4], e |-> m[5], f |-> m[6]]

-----------------------------------------------------------------------------
(* impl From<ct::Matrix> for cairo::Matrix *)
CairoMatrixSwapped(value) ==
    [xx |-> value.a, yx |-> value.c, xy |-> value.b, yy |-> value.d,
     x0 |-> value.e, y0 |-> value.f]

CairoMatrixFrom(value) ==
    [xx |-> value.a, yx |-> value.b, xy |-> value.c, yy |-> value.d,
     x0 |-> value.e, y0 |-> value.f]

(* cairo::Matrix: x_new = xx*x + xy*y + x0, y_new = yx*x + yy*y + y0 *)
Apply(m, p) == <<m.xx * p[1] + m.xy * p[2] + m.x0,
                 m.yx * p[1] + m.yy * p[2] + m.y0>>

\* The matrix of "first m, then n".
Multiply(m, n) ==
    [xx |-> m.xx * n.xx + m.yx * n.xy,
     yx |-> m.xx * n.yx + m.yx * n.yy,
     xy |-> m.xy * n.xx + m.yy * n.xy,
     yy |-> m.xy * n.yx + m.yy * n.yy,
     x0 |-> m.x0 * n.xx + m.y0 * n.xy + n.x0,
     y0 |-> m.x0 * n.yx + m.y0 * n.yy + n.y0]

Identity == [xx |-> 1, yx |-> 0, xy |-> 0, yy |-> 1, x0 |-> 0, y0 |-> 0]
TranslateMatrix(tx, ty) == [Identity EXCEPT !.x0 = tx, !.y0 = ty]
ScaleMatrix(sx, sy) == [Identity EXCEPT !.xx = sx, !.yy = sy]

-----------------------------------------------------------------------------
(* The cairo context.  save pushes the graphics state, restore pops it;    *)
(* the current path is not part of the graphics state.                     *)
NoSurface == <<>>
RgbSource(c) == [rgb |-> c, surface |-> NoSurface]

DefaultGState ==
    [ctm |-> Identity, source |-> RgbSource(<<0, 0, 0>>), line_width |-> 2,
     font_family |-> "", font_size |-> 10]

NewContext == [cur |-> DefaultGState, stack |-> <<>>, path |-> <<>>]

CtxSave(c) == [c EXCEPT !.stack = Append(c.stack, c.cur)]

CtxRestoreKeepsState(c) == [c EXCEPT !.stack = Front(c.stack)]

CtxRestore(c) == [c EXCEPT !.cur = Last(c.stack), !.stack = Front(c.stack)]

CtxSetSourceRgb(c, rgb) == [c EXCEPT !.cur.source = RgbSource(rgb)]
CtxSetLineWidth(c, w) == [c EXCEPT !.cur.line_width = w]
CtxSelectFontFace(c, family) == [c EXCEPT !.cur.font_family = family]
CtxSetFontSize(c, s) == [c EXCEPT !.cur.font_size = s]
CtxTranslate(c, tx, ty) ==
    [c EXCEPT !.cur.ctm = Multiply(TranslateMatrix(tx, ty), c.cur.ctm)]
CtxTransform(c, m) == [c EXCEPT !.cur.ctm = Multiply(m, c.cur.ctm)]
CtxScale(c, sx, sy) ==
    [c EXCEPT !.cur.ctm = Multiply(ScaleMatrix(sx, sy), c.cur.ctm)]
\* move_to starts a new sub-path, line_to extends it (device coordinates).
CtxMoveTo(c, x, y) == [c EXCEPT !.path = <<Apply(c.cur.ctm, <<x, y>>)>>]
CtxLineTo(c, x, y) ==
    [c EXCEPT !.path = Append(c.path, Apply(c.cur.ctm, <<x, y>>))]
\* The pattern is locked to user space when it is set.
CtxSetSourceSurface(c, surface, x, y) ==
    [c EXCEPT !.cur.source =
        [rgb |-> <<0, 0, 0>>,
         surface |-> <<[at |-> Apply(c.cur.ctm, <<x, y>>),
                        size |-> <<c.cur.ctm.xx * surface.width,
                                   c.cur.ctm.yy * surface.height>>]>>]]
CtxClearPath(c) == [c EXCEPT !.path = <<>>]

-----------------------------------------------------------------------------
(* Paths are sequences of components; "/" as first component is the root.  *)
(* Path::parent, Path::join *)
PathParent(p) == IF p = <<>> \/ p = <<"/">> THEN None ELSE Some(Front(p))
PathJoin(p, q) == IF q # <<>> /\ q[1] = "/" THEN q ELSE p \o q

(* The Document and the container session (Ofd) of the render pass. *)
Document ==
    [public_res |-> [fonts |-> [font |->
        <<[id |-> 1, family_name |-> "SimSun"],
          [id |-> 1, family_name |-> "KaiTi"],
          [id |-> 2, family_name |-> "SimHei"]>>]],
     doc_res |-> [base_loc |-> <<"Res">>,
                  multi_medias |-> [multi_media |->
        <<[id |-> 1, media_file |-> <<"image_1.png">>],
          [id |-> 2, media_file |-> <<"image_2.png">>],
          [id |-> 3, media_file |-> <<"image_3.jpg">>],
          [id |-> 4, media_file |-> <<"image_1.png">>],
          [id |-> 4, media_file |-> <<"image_4.png">>]>>]]]

Ofd ==
    [node |-> [doc_body |-> [doc_root |-> <<"Doc_0", "Document.xml">>]],
     zip_archive |->
        {[name |-> <<"OFD.xml">>,
          content |-> [png |-> FALSE, width |-> 0, height |-> 0]],
         [name |-> <<"Doc_0", "Document.xml">>,
          content |-> [png |-> FALSE, width |-> 0, height |-> 0]],
         [name |-> <<"Doc_0", "Res", "image_1.png">>,
          content |-> [png |-> TRUE, width |-> 4, height |-> 4]],
         [name |-> <<"Doc_0", "Res", "image_3.jpg">>,
          content |-> [png |-> FALSE, width |-> 0, height |-> 0]],
         [name |-> <<"Doc_0", "Res", "image_4.png">>,
          content |-> [png |-> TRUE, width |-> 4, height |-> 2]]}]

\* ZipArchive::by_name: the entry of that exact name, if any.
by_name(archive, name) ==
    IF \E f \in archive : f.name = name
    THEN Some((CHOOSE f \in archive : f.name = name).content)
    ELSE None

-----------------------------------------------------------------------------
(* The content tree: Event = PathObject | TextObject | ImageObject |       *)
(* PageBlock.                                                              *)
PathObject(stroke) ==
    [kind |-> "PathObject", boundary |-> <<0, 0, 10, 5>>,
     stroke_color |-> stroke, line_width |-> 1]

TextObject(fill, font, ctm) ==
    [kind |-> "TextObject", boundary |-> <<1, 2, 8, 3>>, fill_color |-> fill,
     font |-> font, size |-> 3,
     text_code |-> [x |-> 1, y |-> 2, value |-> "ofd"], ctm |-> ctm]

ImageObject(id, box) ==
    [kind |-> "ImageObject", boundary |-> box, resource_id |-> id]

PageBlock(events) == [kind |-> "PageBlock", events |-> events]

Red == [value |-> <<255, 0, 0>>]
Blue == [value |-> <<0, 0, 255>>]
IdentityCtm == <<1, 0, 0, 1, 0, 0>>
SkewCtm == <<2, 1, 0, 3, 1, 2>>

FontIds == {1, 2, 9}        \* 9 is in no table
MediaIds == {1, 2, 3, 4, 9}
Boxes == {<<0, 0, 2, 1>>, <<1, 1, 2, 1>>, <<1, 1, 1, 1>>}

AllLeaves ==
    {PathObject(s) : s \in {None, Some(Red)}}
    \cup {TextObject(f, id, m) : f \in {None, Some(Blue)}, id \in FontIds,
                                 m \in {None, Some(IdentityCtm), Some(SkewCtm)}}
    \cup {ImageObject(id, b) : id \in MediaIds, b \in Boxes}

CoreLeaves ==
    {PathObject(Some(Red)), PathObject(None),
     TextObject(Some(Blue), 1, Some(SkewCtm)),
     TextObject(None, 9, None),
     ImageObject(1, <<1, 1, 2, 1>>), ImageObject(9, <<1, 1, 2, 1>>),
     ImageObject(2, <<1, 1, 2, 1>>), ImageObject(3, <<1, 1, 2, 1>>)}

\* The event sequences of at most n events, blocks included.
RECURSIVE Forest(_)
Forest(n) ==
    IF n = 0 THEN {<<>>}
    ELSE {<<>>}
         \cup {<<e>> \o r : e \in CoreLeaves, r \in Forest(n - 1)}
         \cup UNION {{<<PageBlock(inner)>> \o r :
                        inner \in Forest(j), r \in Forest(n - 1 - j)} :
                     j \in 0..(n - 1)}

Pages == Forest(MaxNodes) \cup {<<e>> : e \in AllLeaves}

RECURSIVE EventAt(_, _)
EventAt(events, node) ==
    IF Len(node) = 1 THEN events[node[1]]
    ELSE EventAt(events[node[1]].events, Tail(node))

\* The leaves of a content tree in depth-first, left-to-right order.
RECURSIVE DFSLeaves(_, _)
DFSLeavesFrom(events, base, i) ==
    IF events[i].kind = "PageBlock"
    THEN DFSLeaves(events[i].events, Append(base, i))
    ELSE <<Append(base, i)>>
DFSLeaves(events, base) ==
    IF events = <<>> THEN <<>>
    ELSE DFSLeaves(Front(events), base)
         \o DFSLeavesFrom(events, base, Len(events))

-----------------------------------------------------------------------------
(* Result<(), Error>, and the two ways a render ends without one. *)
Ok == [kind |-> "Ok", node |-> <<>>, why |-> ""]
Err(node, call) == [kind |-> "Err", node |-> node, why |-> call]
Panicked(node, why) == [kind |-> "panic", node |-> node, why |-> why]
Running == [kind |-> "running", node |-> <<>>, why |-> ""]
NotRun == [kind |-> "notrun", node |-> <<>>, why |-> ""]

Top == frames[Len(frames)]
CurEvent == Top.events[Top.i]
CurNode == [k \in 1..Len(frames) |-> frames[k].i]

Op(op, node, gs, geom) == [op |-> op, node |-> node, gs |-> gs, geom |-> geom]

Init ==
    /\ page \in Pages
    /\ frames = <<[events |-> page, i |-> 1]>>
    /\ pc = "walk"
    /\ ri = 0
    /\ ret = Ok
    /\ ctx = NewContext
    /\ log = <<>>
    /\ started = <<>>
    /\ completed = <<>>
    /\ result = Running
    /\ qlog = <<>>
    /\ qresult = NotRun

-----------------------------------------------------------------------------
(* How a leaf render, or the walk, hands its Result to its caller. *)
leafVars == <<page, frames, qlog, qresult>>

Return(r) ==
    /\ ret' = r
    /\ pc' = "ret"
    /\ completed' = IF r.kind = "Ok" THEN Append(completed, CurNode)
                    ELSE completed
    /\ UNCHANGED result

\* A backend call reports an error: the `?` (or the tail expression) returns
\* it.  The failed call has no effect on the context.
Fail(call) ==
    /\ Return(Err(CurNode, call))
    /\ log' = Append(log, Op("error", CurNode, ctx.cur, call))

Panic(why) ==
    /\ result' = Panicked(CurNode, why)
    /\ pc' = "done"
    /\ UNCHANGED <<ret, completed>>

Continue(next) ==
    /\ pc' = next
    /\ UNCHANGED <<ret, completed, result>>

-----------------------------------------------------------------------------
(* _render_page_block_to_cairo: for event in events.iter() { match event } *)
AtEvent(kind) ==
    /\ pc = "walk"
    /\ Top.i <= Len(Top.events)
    /\ CurEvent.kind = kind

DispatchPathObject ==
    /\ AtEvent("PathObject")
    /\ pc' = "path_save"
    /\ started' = Append(started, CurNode)
    /\ UNCHANGED <<page, frames, ri, ret, ctx, log, completed, result,
                   qlog, qresult>>

DispatchTextObject ==
    /\ AtEvent("TextObject")
    /\ pc' = "text_save"
    /\ started' = Append(started, CurNode)
    /\ UNCHANGED <<page, frames, ri, ret, ctx, log, completed, result,
                   qlog, qresult>>

DispatchImageObject ==
    /\ AtEvent("ImageObject")
    /\ pc' = "image_save"
    /\ started' = Append(started, CurNode)
    /\ UNCHANGED <<page, frames, ri, ret, ctx, log, completed, result,
                   qlog, qresult>>

\* PageBlock::render_to_cairo_context walks its own events.
PageBlockSkipsEvents(p) == <<>>

PageBlockEvents(p) == p.events

DispatchPageBlock ==
    /\ AtEvent("PageBlock")
    /\ frames' = Append(frames, [events |-> PageBlockEvents(CurEvent),
                                 i |-> 1])
    /\ UNCHANGED <<page, pc, ri, ret, ctx, log, started, completed, result,
                   qlog, qresult>>

\* The loop is exhausted: Ok(()).
WalkEnd ==
    /\ pc = "walk"
    /\ Top.i > Len(Top.events)
    /\ frames' = Front(frames)
    /\ ret' = Ok
    /\ pc' = "ret"
    /\ UNCHANGED <<page, ri, ctx, log, started, completed, result,
                   qlog, qresult>>

\* match ...render_to_cairo_context(..) { Ok(_) => (), Err(e) => return Err(e) }
WalkMatchSwallows(r) == "continue"

WalkMatch(r) == IF r.kind = "Ok" THEN "continue" ELSE "return"

MatchResult ==
    /\ pc = "ret"
    /\ frames # <<>>
    /\ IF WalkMatch(ret) = "continue"
       THEN /\ frames' = [frames EXCEPT ![Len(frames)].i = @ + 1]
            /\ pc' = "walk"
       ELSE /\ frames' = Front(frames)
            /\ pc' = "ret"
    /\ UNCHANGED <<page, ri, ret, ctx, log, started, completed, result,
                   qlog, qresult>>

\* Page::render_to_cairo_context returns the walk's Result to its caller.
PageReturn ==
    /\ pc = "ret"
    /\ frames = <<>>
    /\ result' = ret
    /\ pc' = "done"
    /\ UNCHANGED <<page, frames, ri, ret, ctx, log, started, completed,
                   qlog, qresult>>

-----------------------------------------------------------------------------
(* PathObject::render_to_cairo_context *)
PathSave ==
    /\ pc = "path_save"
    /\ \E ok \in BOOLEAN :
        IF ok THEN ctx' = CtxSave(ctx) /\ Continue("path_body") /\ UNCHANGED log
        ELSE Fail("save") /\ UNCHANGED ctx
    /\ UNCHANGED <<ri, started>>
    /\ UNCHANGED leafVars

\* set_source_rgb, set_line_width, move_to and the four line_to.
PathTrace(c, p) ==
    LET boundary == to_pixel(BoxFrom(p.boundary))
        color == ColorFrom(Unwrap(p.stroke_color).value)
        c1 == CtxSetLineWidth(CtxSetSourceRgb(c, color.value),
                              mmtopx(p.line_width))
        c2 == CtxMoveTo(c1, boundary.x, boundary.y)
        c3 == CtxLineTo(c2, boundary.x + boundary.width, boundary.y)
        c4 == CtxLineTo(c3, boundary.x + boundary.width,
                        boundary.y + boundary.height)
        c5 == CtxLineTo(c4, boundary.x, boundary.y + boundary.height)
    IN  CtxLineTo(c5, boundary.x, boundary.y)

PathBody ==
    /\ pc = "path_body"
    /\ IF IsSome(CurEvent.stroke_color)
       THEN ctx' = PathTrace(ctx, CurEvent) /\ Continue("path_stroke")
       ELSE Panic("stroke_color.unwrap") /\ UNCHANGED ctx
    /\ UNCHANGED <<ri, log, started>>
    /\ UNCHANGED leafVars

PathStroke ==
    /\ pc = "path_stroke"
    /\ \E ok \in BOOLEAN :
        IF ok
        THEN /\ log' = Append(log, Op("stroke", CurNode, ctx.cur, ctx.path))
             /\ ctx' = CtxClearPath(ctx)
             /\ Continue("path_restore")
        ELSE Fail("stroke") /\ UNCHANGED ctx
    /\ UNCHANGED <<ri, started>>
    /\ UNCHANGED leafVars

PathRestore ==
    /\ pc = "path_restore"
    /\ \E ok \in BOOLEAN :
        IF ok THEN ctx' = CtxRestore(ctx) /\ Return(Ok) /\ UNCHANGED log
        ELSE Fail("restore") /\ UNCHANGED ctx
    /\ UNCHANGED <<ri, started>>
    /\ UNCHANGED leafVars

-----------------------------------------------------------------------------
(* TextObject::render_to_cairo_context *)
TextSave ==
    /\ pc = "text_save"
    /\ \E ok \in BOOLEAN :
        IF ok THEN ctx' = CtxSave(ctx) /\ Continue("text_body") /\ UNCHANGED log
        ELSE Fail("save") /\ UNCHANGED ctx
    /\ UNCHANGED <<ri, started>>
    /\ UNCHANGED leafVars

\* for font in fonts { if font.id == font_id { select_font_face; break } }
SelectFont(c, fonts, font_id) ==
    IF \E k \in 1..Len(fonts) : fonts[k].id = font_id
    THEN LET k == CHOOSE k \in 1..Len(fonts) :
                    /\ fonts[k].id = font_id
                    /\ \A j \in 1..(k - 1) : fonts[j].id # font_id
         IN  CtxSelectFontFace(c, fonts[k].family_name)
    ELSE c

\* context.translate(..); if let Some(ctm) { context.transform(..) }
TextPlaceTransformFirst(c, t, boundary) ==
    LET c1 == IF IsSome(t.ctm)
              THEN CtxTransform(c, CairoMatrixFrom(MatrixFrom(Unwrap(t.ctm))))
              ELSE c
    IN  CtxTranslate(c1, boundary.x + mmtopx(t.text_code.x),
                     boundary.y + mmtopx(t.text_code.y))

TextPlace(c, t, boundary) ==
    LET c1 == CtxTranslate(c, boundary.x + mmtopx(t.text_code.x),
                           boundary.y + mmtopx(t.text_code.y))
    IN  IF IsSome(t.ctm)
        THEN CtxTransform(c1, CairoMatrixFrom(MatrixFrom(Unwrap(t.ctm))))
        ELSE c1

TextSetup(c, t, document) ==
    LET boundary == to_pixel(BoxFrom(t.boundary))
        color == IF IsSome(t.fill_color) THEN Unwrap(t.fill_color).value
                 ELSE ColorDefault.value
        fill_color == ColorFrom(color)
        c1 == SelectFont(c, document.public_res.fonts.font, t.font)
        c2 == CtxSetFontSize(c1, mmtopx(t.size))
        c3 == CtxSetSourceRgb(c2, fill_color.value)
    IN  CtxMoveTo(TextPlace(c3, t, boundary), 0, 0)

TextBody ==
    /\ pc = "text_body"
    /\ ctx' = TextSetup(ctx, CurEvent, Document)
    /\ Continue("text_show")
    /\ UNCHANGED <<ri, log, started>>
    /\ UNCHANGED leafVars

TextShow ==
    /\ pc = "text_show"
    /\ \E ok \in BOOLEAN :
        IF ok
        THEN /\ log' = Append(log, Op("show_text", CurNode, ctx.cur,
                                      <<ctx.path[1], CurEvent.text_code.value>>))
             /\ Continue("text_restore")
        ELSE Fail("show_text")
    /\ UNCHANGED <<ri, ctx, started>>
    /\ UNCHANGED leafVars

TextRestore ==
    /\ pc = "text_restore"
    /\ \E ok \in BOOLEAN :
        IF ok THEN ctx' = CtxRestore(ctx) /\ Return(Ok) /\ UNCHANGED log
        ELSE Fail("restore") /\ UNCHANGED ctx
    /\ UNCHANGED <<ri, started>>
    /\ UNCHANGED leafVars

-----------------------------------------------------------------------------
(* ImageObject::render_to_cairo_context *)
ImageSave ==
    /\ pc = "image_save"
    /\ \E ok \in BOOLEAN :
        IF ok
        THEN ctx' = CtxSave(ctx) /\ ri' = 1 /\ Continue("image_loop")
             /\ UNCHANGED log
        ELSE Fail("save") /\ UNCHANGED <<ctx, ri>>
    /\ UNCHANGED started
    /\ UNCHANGED leafVars

\* if resource.id == self.resource_id
ResourceMatchesAny(resource, image) == TRUE

ResourceMatches(resource, image) == resource.id = image.resource_id

\* The next entry of the table, from index `from` on, that the loop body
\* acts on; 0 when the loop is exhausted.
NextMatch(multi_media, image, from) ==
    LET hits == {k \in from..Len(multi_media) :
                    ResourceMatches(multi_media[k], image)}
    IN  IF hits = {} THEN 0
        ELSE CHOOSE k \in hits : \A j \in hits : k <= j

\* path.parent().unwrap().join(base_loc).join(media_file)
ResPath(ofd, document, resource) ==
    PathJoin(PathJoin(Unwrap(PathParent(ofd.node.doc_body.doc_root)),
                      document.doc_res.base_loc),
             resource.media_file)

\* by_name(..).unwrap(), read_to_end, create_from_png(..).unwrap(), scale
ImageLoop ==
    /\ pc = "image_loop"
    /\ LET multi_media == Document.doc_res.multi_medias.multi_media
           k == NextMatch(multi_media, CurEvent, ri)
       IN  IF k = 0
           THEN /\ ri' = 0
                /\ Continue("image_restore")
                /\ UNCHANGED <<ctx, log>>
           ELSE IF ~IsSome(PathParent(Ofd.node.doc_body.doc_root))
           THEN Panic("parent.unwrap") /\ UNCHANGED <<ctx, log, ri>>
           ELSE
             LET boundary == to_pixel(BoxFrom(CurEvent.boundary))
                 res_path == ResPath(Ofd, Document, multi_media[k])
                 file == by_name(Ofd.zip_archive, res_path)
                 read == Op("read", CurNode, ctx.cur, res_path)
             IN  IF ~IsSome(file)
                 THEN Panic("by_name.unwrap") /\ UNCHANGED <<ctx, log, ri>>
                 ELSE IF ~Unwrap(file).png
                 THEN /\ Panic("create_from_png.unwrap")
                      /\ log' = Append(log, read)
                      /\ UNCHANGED <<ctx, ri>>
                 ELSE
                   LET surface == Unwrap(file)
                       sx == boundary.width \div surface.width
                       sy == boundary.height \div surface.height
                   IN  /\ ctx' = CtxScale(ctx, sx, sy)
                       /\ log' = log \o <<read, Op("scale", CurNode, ctx.cur,
                                                  <<sx, sy>>)>>
                       /\ ri' = k
                       /\ Continue("image_source")
    /\ UNCHANGED started
    /\ UNCHANGED leafVars

ImageSetSource ==
    /\ pc = "image_source"
    /\ \E ok \in BOOLEAN :
        IF ok
        THEN LET boundary == to_pixel(BoxFrom(CurEvent.boundary))
                 resource == Document.doc_res.multi_medias.multi_media[ri]
                 surface == Unwrap(by_name(Ofd.zip_archive,
                                           ResPath(Ofd, Document, resource)))
             IN  /\ ctx' = CtxSetSourceSurface(ctx, surface,
                                               boundary.x, boundary.y)
                 /\ Continue("image_paint")
                 /\ UNCHANGED log
        ELSE Fail("set_source_surface") /\ UNCHANGED ctx
    /\ UNCHANGED <<ri, started>>
    /\ UNCHANGED leafVars

ImagePaint ==
    /\ pc = "image_paint"
    /\ \E ok \in BOOLEAN :
        IF ok
        THEN LET s == ctx.cur.source.surface[1]
             IN  /\ log' = Append(log, Op("paint", CurNode, ctx.cur,
                                  <<s.at[1], s.at[2], s.size[1], s.size[2]>>))
                 /\ ri' = ri + 1
                 /\ Continue("image_loop")
        ELSE Fail("paint") /\ UNCHANGED ri
    /\ UNCHANGED <<ctx, started>>
    /\ UNCHANGED leafVars

ImageRestore ==
    /\ pc = "image_restore"
    /\ \E ok \in BOOLEAN :
        IF ok THEN ctx' = CtxRestore(ctx) /\ Return(Ok) /\ UNCHANGED log
        ELSE Fail("restore") /\ UNCHANGED ctx
    /\ UNCHANGED <<ri, started>>
    /\ UNCHANGED leafVars

-----------------------------------------------------------------------------
(* The painter backend.  It has no error channel; only PathObject draws,   *)
(* TextObject, ImageObject and PageBlock log a message and return.         *)
QDrawRect(node, p) ==
    LET boundary == to_pixel(BoxFrom(p.boundary))
        color == ColorFrom(Unwrap(p.stroke_color).value)
    IN  [op |-> "draw_rect", node |-> node,
         pen |-> [color |-> color.value, width |-> mmtopx(p.line_width)],
         geom |-> <<boundary.x, boundary.y, boundary.width, boundary.height>>]

\* _render_page_block_to_qpainter, from event i on; acc is the painter so far.
RECURSIVE render_page_block_to_qpainter(_, _, _)
render_page_block_to_qpainter(events, i, acc) ==
    IF i > Len(events) \/ acc.res.kind = "panic" THEN acc
    ELSE LET e == events[i]
         IN  IF e.kind = "PathObject"
             THEN IF IsSome(e.stroke_color)
                  THEN render_page_block_to_qpainter(events, i + 1,
                          [acc EXCEPT !.log = Append(@, QDrawRect(<<i>>, e))])
                  ELSE [acc EXCEPT
                          !.res = Panicked(<<i>>, "stroke_color.unwrap")]
             ELSE render_page_block_to_qpainter(events, i + 1, acc)

\* Page::render_to_qpainter, the second entry point of the same session.
PageRenderToQPainter ==
    /\ pc = "done"
    /\ qresult = NotRun
    /\ LET out == render_page_block_to_qpainter(page, 1,
                                                [log |-> <<>>, res |-> Ok])
       IN  qlog' = out.log /\ qresult' = out.res
    /\ UNCHANGED <<page, frames, pc, ri, ret, ctx, log, started, completed,
                   result>>

-----------------------------------------------------------------------------
Next ==
    \/ DispatchPathObject
    \/ DispatchTextObject
    \/ DispatchImageObject
    \/ DispatchPageBlock
    \/ WalkEnd
    \/ MatchResult
    \/ PageReturn
    \/ PathSave
    \/ PathBody
    \/ PathStroke
    \/ PathRestore
    \/ TextSave
    \/ TextBody
    \/ TextShow
    \/ TextRestore
    \/ ImageSave
    \/ ImageLoop
    \/ ImageSetSource
    \/ ImagePaint
    \/ ImageRestore
    \/ PageRenderToQPainter

Spec == Init /\ [][Next]_vars

-----------------------------------------------------------------------------
(* Vocabulary of the properties. *)
Leaves == DFSLeaves(page, <<>>)
IsPrefix(s, t) == Len(s) <= Len(t) /\ SubSeq(t, 1, Len(s)) = s
InSeq(x, s) == \E k \in 1..Len(s) : s[k] = x
IsError(op) == op.op = "error"
IsDraw(op) == op.op \in {"stroke", "show_text", "paint"}
Errors == SelectSeq(log, IsError)
Draws == SelectSeq(log, IsDraw)
\* Position of a leaf in document order.
Pos(node) == CHOOSE k \in 1..Len(Leaves) : Leaves[k] = node
PixelBox(e) ==
    LET b == to_pixel(BoxFrom(e.boundary)) IN <<b.x, b.y, b.width, b.height>>
\* The resource id of an ImageObject is in no entry of the multimedia table.
AbsentId(e) ==
    /\ e.kind = "ImageObject"
    /\ \A k \in 1..Len(Document.doc_res.multi_medias.multi_media) :
          Document.doc_res.multi_medias.multi_media[k].id # e.resource_id
\* The id is in the table, but an entry it names is missing or is no PNG.
Unresolvable(e) ==
    /\ e.kind = "ImageObject"
    /\ \E k \in 1..Len(Document.doc_res.multi_medias.multi_media) :
        LET r == Document.doc_res.multi_medias.multi_media[k]
            f == by_name(Ofd.zip_archive, ResPath(Ofd, Document, r))
        IN  r.id = e.resource_id /\ (IsSome(f) => ~Unwrap(f).png)

(* C1: when a render_to_cairo_context returns, Ok or Err, the depth of the *)
(* backend state stack equals its depth at entry, also when a backend call *)
(* failed: every save that succeeded has been matched by a restore.  (A    *)
(* restore that was called and failed is taken as the match.)  The code    *)
(* returns from a failed stroke, show_text, set_source_surface or paint    *)
(* without calling restore.                                                *)
C1_StackBalancedOnReturn ==
    (pc = "ret" \/ result.kind \in {"Ok", "Err"})
        => \/ Len(ctx.stack) = Len(NewContext.stack)
           \/ Errors # <<>> /\ Errors[1].geom = "restore"

(* C2: if the render of the k-th leaf in document order is the first to    *)
(* fail, the walk returns that very error, every leaf before k has been    *)
(* rendered and none after k; if none fails the walk returns Ok.           *)
C2_FailFast ==
    result.kind \in {"Ok", "Err"} =>
        IF Errors = <<>>
        THEN result = Ok /\ completed = Leaves
        ELSE /\ Len(Errors) = 1
             /\ result = Err(Errors[1].node, Errors[1].geom)
             /\ Last(log).op = "error"
             /\ IsPrefix(started, Leaves)
             /\ Last(started) = Errors[1].node
             /\ completed = Front(started)
             /\ \A k \in 1..Len(log) : InSeq(log[k].node, started)

\* A leaf inside a PageBlock failed while the enclosing sequence still had
\* an event to render.
C2_Witness ==
    /\ result.kind = "Err"
    /\ Len(result.node) = 2
    /\ Len(Leaves) > Len(started)
    /\ result.node = Last(started)

(* C3: the walk renders the leaves in depth-first, left-to-right order,    *)
(* one at a time: a leaf returns before the next one starts, the backend   *)
(* operations appear in document order, and a walk that returns Ok has     *)
(* rendered every leaf exactly once.                                       *)
C3_DocumentOrder ==
    /\ IsPrefix(started, Leaves)
    /\ IsPrefix(completed, started)
    /\ Len(started) <= Len(completed) + 1
    /\ \A k \in 1..Len(log) : InSeq(log[k].node, started)
    /\ \A j, k \in 1..Len(log) :
          j < k => Pos(log[j].node) <= Pos(log[k].node)
    /\ result.kind = "Ok" =>
          /\ started = Leaves
          /\ completed = Leaves
          /\ \A k \in 1..Len(Leaves) :
                LET e == EventAt(page, Leaves[k])
                    ops == SelectSeq(Draws, LAMBDA op : op.node = Leaves[k])
                IN  /\ e.kind = "PathObject" =>
                          Len(ops) = 1 /\ ops[1].op = "stroke"
                    /\ e.kind = "TextObject" =>
                          Len(ops) = 1 /\ ops[1].op = "show_text"
                    /\ e.kind = "ImageObject" =>
                          \A i \in 1..Len(ops) : ops[i].op = "paint"

\* A page with a leaf inside a block and a leaf after it was rendered.
C3_Witness ==
    /\ result.kind = "Ok"
    /\ Len(Draws) >= 2
    /\ \E k \in 1..(Len(Leaves) - 1) :
          Len(Leaves[k]) = 2 /\ Len(Leaves[k + 1]) = 1

(* C4: an ImageObject whose id is in the table but whose archive entry is  *)
(* missing or does not decode makes render_to_cairo_context return an      *)
(* error; the render ends in no other way than by returning a Result.      *)
(* The code unwraps by_name and create_from_png, which panics.             *)
C4_UnresolvableImageReturnsErr ==
    (/\ result.kind # "running"
     /\ started # <<>>
     /\ Unresolvable(EventAt(page, Last(started)))
     /\ Errors = <<>>)
        => result.kind = "Err"

(* C5 as stated: an ImageObject whose id is in no table entry always       *)
(* returns Ok.                                                             *)
C5_AbsentIdAlwaysOk ==
    \A k \in 1..Len(Errors) : ~AbsentId(EventAt(page, Errors[k].node))

(* C5, amended: an ImageObject whose id is in no table entry reads nothing *)
(* from the archive, emits no scale and no paint, and never panics; it     *)
(* returns Ok unless its own save or restore fails, and after it returned  *)
(* Ok the walk goes on to the next leaf.                                   *)
C5_AbsentIdRendersNothing ==
    \A k \in 1..Len(started) :
        AbsentId(EventAt(page, started[k])) =>
            /\ \A j \in 1..Len(log) :
                  log[j].node = started[k] =>
                      /\ log[j].op = "error"
                      /\ log[j].geom \in {"save", "restore"}
            /\ ~(result.kind = "panic" /\ result.node = started[k])
            /\ (pc = "image_restore" /\ k = Len(started)) =>
                  ctx.cur = Last(ctx.stack)
            /\ (result.kind # "running" /\ InSeq(started[k], completed)
                    /\ k < Len(Leaves))
                  => Len(started) > k

\* An ImageObject with an absent id returned Ok and the leaf after it was
\* rendered.
C5_Witness ==
    /\ result.kind = "Ok"
    /\ \E k \in 1..(Len(started) - 1) :
          /\ AbsentId(EventAt(page, started[k]))
          /\ InSeq(started[k], completed)
          /\ \E j \in 1..Len(log) : log[j].node = started[k + 1]

(* C6: a PathObject without a stroke color, like a TextObject without fill *)
(* color, CTM or known font, is drawn with a default and returns Ok when   *)
(* the backend calls succeed.  The code unwraps the stroke color.          *)
C6_OptionalAbsenceNeverFails ==
    (/\ result.kind # "running"
     /\ started # <<>>
     /\ EventAt(page, Last(started)).kind \in {"PathObject", "TextObject"}
     /\ Errors = <<>>)
        => InSeq(Last(started), completed)

\* What one backend operation shows of an element: kind, pixel box, color.
CairoDrawn(op) ==
    IF op.op = "stroke"
    THEN [kind |-> "PathObject", color |-> op.gs.source.rgb,
          box |-> <<op.geom[1][1], op.geom[1][2],
                    op.geom[3][1] - op.geom[1][1],
                    op.geom[3][2] - op.geom[1][2]>>]
    ELSE IF op.op = "show_text"
    THEN [kind |-> "TextObject", color |-> op.gs.source.rgb,
          box |-> <<op.geom[1][1], op.geom[1][2], 0, 0>>]
    ELSE [kind |-> "ImageObject", color |-> op.gs.source.rgb,
          box |-> op.geom]
PainterDrawn(op) ==
    [kind |-> "PathObject", color |-> op.pen.color, box |-> op.geom]
(* C7: for a Page whose render succeeds, the painter backend draws the     *)
(* same sequence of elements (kind, pixel box, color) as the vector        *)
(* canvas.  The painter draws PathObjects of the top sequence only.        *)
C7_OutputParity ==
    (result.kind = "Ok" /\ qresult.kind = "Ok") =>
        /\ Len(Draws) = Len(qlog)
        /\ \A k \in 1..Len(qlog) : CairoDrawn(Draws[k]) = PainterDrawn(qlog[k])

(* C8: scale(bw/sw, bh/sh), set_source_surface(surface, bx, by), paint     *)
(* puts the image on its pixel box (bx, by, bw, bh) in device space, for   *)
(* every box origin and scale.  The origin is scaled along with the image. *)
C8_ImageOnItsBox ==
    \A k \in 1..Len(log) :
        log[k].op = "paint" => log[k].geom = PixelBox(EventAt(page, log[k].node))

\* Box origin plus text_code offset, in pixels, and the transform expected
\* at show_text, written out coefficient by coefficient.
TextOrigin(t) ==
    <<PxPerMm * t.boundary[1] + PxPerMm * t.text_code.x,
      PxPerMm * t.boundary[2] + PxPerMm * t.text_code.y>>
ExpectedTextCtm(t) ==
    IF t.ctm = <<>>
    THEN [xx |-> 1, yx |-> 0, xy |-> 0, yy |-> 1,
          x0 |-> TextOrigin(t)[1], y0 |-> TextOrigin(t)[2]]
    ELSE [xx |-> t.ctm[1][1], yx |-> t.ctm[1][2],
          xy |-> t.ctm[1][3], yy |-> t.ctm[1][4],
          x0 |-> t.ctm[1][5] + TextOrigin(t)[1],
          y0 |-> t.ctm[1][6] + TextOrigin(t)[2]]
(* C9: a TextObject is drawn at local (0, 0) under the transform           *)
(* "CTM (a->xx, b->yx, c->xy, d->yy, e->x0, f->y0), then translate by      *)
(* box origin + text_code offset"; with the identity CTM the transform and *)
(* the text position are those of the same TextObject without a CTM.       *)
C9_TextTransform ==
    \A k \in 1..Len(log) :
        log[k].op = "show_text" =>
            LET t == EventAt(page, log[k].node)
                m == ExpectedTextCtm(t)
            IN  /\ log[k].gs.ctm = m
                /\ log[k].geom[1] = <<m.x0, m.y0>>
                /\ t.ctm = <<IdentityCtm>> =>
                      /\ log[k].gs.ctm = ExpectedTextCtm([t EXCEPT !.ctm = <<>>])
                      /\ log[k].geom[1] = TextOrigin(t)

\* A TextObject with the identity CTM was drawn.
C9_Witness ==
    \E k \in 1..Len(log) :
        /\ log[k].op = "show_text"
        /\ EventAt(page, log[k].node).ctm = <<IdentityCtm>>

(* C10: while every backend call succeeds, each event's render starts with *)
(* the transform, source, line width and font settings the walk started    *)
(* with, and the state stack is never more than one above its depth at     *)
(* entry.                                                                  *)
C10_NoStateLeak ==
    Errors = <<>> =>
        /\ Len(ctx.stack) <= Len(NewContext.stack) + 1
        /\ pc \in {"walk", "path_save", "text_save", "image_save", "ret"}
              => ctx.cur = NewContext.cur /\ ctx.stack = NewContext.stack

\* The walk is about to render an event after a text and an image were
\* drawn under their own transforms.
C10_Witness ==
    /\ Errors = <<>>
    /\ pc \in {"path_save", "text_save", "image_save"}
    /\ \E k \in 1..Len(log) :
          log[k].op = "show_text" /\ log[k].gs.ctm # Identity
    /\ \E k \in 1..Len(log) :
          log[k].op = "paint" /\ log[k].gs.ctm # Identity

====
